---------------------------- MODULE Spec2Model ----------------------------
(***************************************************************************)
(* A model of src/gpt.py: the attribute path resolver (attribute_puller),  *)
(* the streaming response collector (EventHandler), the assistant/thread   *)
(* manager (GPT) and the convenience entry point (send_pdf_to_openai).     *)
(*                                                                         *)
(* Python strings that the code only compares are TLA+ strings; the text   *)
(* that str.replace rewrites is a sequence of one-character strings.       *)
(* Python's None is the record NoneV.  The remote service (the OpenAI SDK  *)
(* client) is the environment: its state is the variable remote, and each  *)
(* operation's inputs say which of its calls, if any, raises ("APIError"). *)
(* A method is an operator from the instance and the service before the    *)
(* call to an Outcome: the instance and the service after it, the remote   *)
(* calls made, and the value returned or the error raised.                 *)
(***************************************************************************)
EXTENDS Integers, Sequences, FiniteSets, TLC

VARIABLES
    remote,     \* the remote service: assistants, files and threads it holds
    caller,     \* the caller's GPT instance: assistant, message_file, thread
    last,       \* the last operation to end: inputs, state before, outcome
    entry,      \* the activation record of send_pdf_to_openai
    handler,    \* an EventHandler instance: parse_response and its log
    delivered,  \* the last callback delivered to handler, with its argument
    puller      \* an attribute_puller call: its arguments and its outcome

vars == <<remote, caller, last, entry, handler, delivered, puller>>

-----------------------------------------------------------------------------
(* Bounds of the model.                                                    *)

MaxLen == 3            \* longest message text, in characters
MaxAnn == 2            \* most annotations on one message
MaxEvents == 2         \* most callbacks delivered to one handler
MaxPath == 3           \* longest attribute path
MaxFiles == 2          \* most files uploaded
MaxThreads == 1        \* most threads created

-----------------------------------------------------------------------------
(* Python values.                                                          *)

\* None where the code holds an object.
NoneV == [kind |-> "None"]

\* None where the code holds a string (a name, a content, a path).
NoneS == "<None>"

\* Python truthiness of the strings the code tests with `not`: None and ""
\* are falsy.
FalsyStr(s) == s = NoneS \/ s = ""

\* A text the code builds character by character.
Str(chars) == [kind |-> "str", chars |-> chars]

-----------------------------------------------------------------------------
(* str.replace and the citation markers of EventHandler.on_message_done.   *)

Alphabet == {"a", "0"}

RECURSIVE ReplaceFrom(_, _, _, _)
ReplaceFrom(s, old, new, i) ==
    IF i > Len(s) THEN <<>>
    ELSE IF i + Len(old) - 1 <= Len(s) /\ SubSeq(s, i, i + Len(old) - 1) = old
         THEN new \o ReplaceFrom(s, old, new, i + Len(old))
         ELSE <<s[i]>> \o ReplaceFrom(s, old, new, i + 1)

RECURSIVE Intersperse(_, _, _)
Intersperse(s, new, i) ==
    IF i > Len(s) THEN new
    ELSE new \o <<s[i]>> \o Intersperse(s, new, i + 1)

\* s.replace(old, new): every non-overlapping occurrence of old, leftmost
\* first; an empty old matches before every character and at the end.
StrReplace(s, old, new) ==
    IF old = <<>> THEN Intersperse(s, new, 1) ELSE ReplaceFrom(s, old, new, 1)

Digits == <<"0", "1", "2", "3", "4", "5", "6", "7", "8", "9">>

\* f"[{index}]" for a one-digit index.
IndexMarker(index) == <<"[", Digits[index + 1], "]">>

\* The loop of on_message_done from annotation number i (0-based) on.
RECURSIVE ReplaceAnnotations(_, _, _)
ReplaceAnnotations(value, annotations, i) ==
    IF i >= Len(annotations) THEN value
    ELSE ReplaceAnnotations(
             StrReplace(value, annotations[i + 1].text, IndexMarker(i)),
             annotations, i + 1)

\* on_message_done(message) on a handler h: the handler afterwards, or the
\* error raised.  message.content[0] of an empty content is an IndexError;
\* a first block that is no text block has no .text (AttributeError).
on_message_done(h, message) ==
    IF Len(message.content) = 0
    THEN [h |-> h, exc |-> "IndexError"]
    ELSE IF message.content[1].type # "text"
    THEN [h |-> h, exc |-> "AttributeError"]
    ELSE LET message_content == message.content[1].text
         IN  [h |-> [h EXCEPT !.parse_response =
                         Str(ReplaceAnnotations(message_content.value,
                                                message_content.annotations, 0))],
              exc |-> "none"]

\* EventHandler.__init__(parse_response)
EventHandlerInit(parse_response) == [parse_response |-> parse_response, log |-> <<>>]

on_text_created(h, text) == [h EXCEPT !.log = Append(@, "on_text_created")]

on_tool_call_created(h, tool_call) ==
    [h EXCEPT !.log = Append(@, "on_tool_call_created")]

-----------------------------------------------------------------------------
(* Messages the service can finalize.                                      *)

Strings(n) == UNION {[1..k -> Alphabet] : k \in 0..n}

\* An annotation of value: a span of it with the text it covers.
Annotation(value, s, e) ==
    [text |-> SubSeq(value, s, e), start_index |-> s - 1, end_index |-> e]

Spans(value) == {<<s, e>> \in (1..Len(value)) \X (1..Len(value)) : s <= e}

\* Sequences of at most n spans of value, left to right, not overlapping.
RECURSIVE SpanSeqs(_, _, _)
SpanSeqs(value, from, n) ==
    {<<>>} \cup
    (IF n = 0 THEN {}
     ELSE UNION {{<<sp>> \o rest : rest \in SpanSeqs(value, sp[2] + 1, n - 1)} :
                    sp \in {q \in Spans(value) : q[1] >= from}})

AnnotationsOf(value, spans) ==
    [i \in 1..Len(spans) |-> Annotation(value, spans[i][1], spans[i][2])]

TextBlock(value, annotations) ==
    [type |-> "text", text |-> [value |-> value, annotations |-> annotations]]

ImageBlock == [type |-> "image_file"]

TextMessages ==
    UNION {{[content |-> <<TextBlock(v, AnnotationsOf(v, sp))>>] :
                sp \in SpanSeqs(v, 1, MaxAnn)} : v \in Strings(MaxLen)}

\* A run may also finalize a message with no content, or one whose first
\* block is not text.
Messages == TextMessages \cup {[content |-> <<>>], [content |-> <<ImageBlock>>]}

-----------------------------------------------------------------------------
(* attribute_puller over Python objects: None, integers (0 is falsy) and   *)
(* plain objects with attributes (truthy).                                 *)

PyInt(n) == [kind |-> "int", v |-> n]

Obj(fields) == [kind |-> "obj", fields |-> fields]

Truthy(v) ==
    CASE v.kind = "None" -> FALSE
      [] v.kind = "int" -> v.v # 0
      [] OTHER -> TRUE

\* getattr(o, attr, None): a missing attribute and one set to None are alike.
GetAttr(o, attr) ==
    IF o.kind = "obj" /\ attr \in DOMAIN o.fields THEN o.fields[attr] ELSE NoneV

\* The for loop of attribute_puller from step i on; st carries the error
\* log and the attribute lookups made so far.
RECURSIVE PullerLoop(_, _, _, _, _)
PullerLoop(_path, _obj, i, ret, st) ==
    IF i > Len(_path) THEN [ret |-> ret, log |-> st.log, lookups |-> st.lookups]
    ELSE LET attr == _path[i]
             got == IF Truthy(ret) THEN GetAttr(ret, attr) ELSE GetAttr(_obj, attr)
             lookups == Append(st.lookups, attr)
         IN  IF ~Truthy(got)
             THEN [ret |-> got, log |-> Append(st.log, attr), lookups |-> lookups]
             ELSE PullerLoop(_path, _obj, i + 1, got,
                             [log |-> st.log, lookups |-> lookups])

attribute_puller(_path, _obj) ==
    IF Len(_path) = 0 \/ ~Truthy(_obj)
    THEN [ret |-> NoneV, log |-> <<>>, lookups |-> <<>>]
    ELSE PullerLoop(_path, _obj, 1, NoneV, [log |-> <<>>, lookups |-> <<>>])

-----------------------------------------------------------------------------
(* The remote service, as the client sees it.                              *)

AsstIds == <<"asst_1", "asst_2", "asst_3", "asst_4", "asst_5", "asst_6">>
FileIds == <<"file_1", "file_2", "file_3", "file_4", "file_5">>
ThreadIds == <<"thread_1", "thread_2", "thread_3", "thread_4", "thread_5">>

Assistant(id, name, model, tools, instructions) ==
    [id |-> id, name |-> name, model |-> model, tools |-> tools,
     instructions |-> instructions]

\* A remote call the client made: the API, its arguments, and what the
\* service answered.
Call(api, args, reply) == [api |-> api, args |-> args, ok |-> TRUE, reply |-> reply]

\* A remote call that raised.
Failed(api, args) == [api |-> api, args |-> args, ok |-> FALSE, reply |-> NoneV]

\* kwargs.get(key, default)
KwGet(kwargs, key, default) ==
    IF key \in DOMAIN kwargs THEN kwargs[key] ELSE default

NoKwargs == [k \in {} |-> NoneV]

\* What an operation hands back: the instance and the service afterwards,
\* the remote calls it made, its return value or the error it raised, and
\* what it logged at error level.
Outcome(g, r, calls, ret, exc) ==
    [g |-> g, remote |-> r, calls |-> calls, ret |-> ret, exc |-> exc,
     log |-> <<>>]

\* The errors the manager raises itself.
NameError == "RuntimeError: Missing name for assistant creation in GPT"
ContentError == "RuntimeError: No content provided for create_thread [hqt673]"
ThreadError == "RuntimeError: get_response did not receive thread"
AssistantError == "RuntimeError: get_response did not receive assistant"

\* GPT.__init__
GPTInit == [assistant |-> NoneV, message_file |-> NoneV, thread |-> NoneV]

-----------------------------------------------------------------------------
(* GPT.find_assistant                                                      *)

\* A scan that tests the id alone.
Matches_id_only(asst, id_or_name) == asst.id = id_or_name

\* The two tests of the scan: asst.id == id_or_name, asst.name == id_or_name.
Matches(asst, id_or_name) == asst.id = id_or_name \/ asst.name = id_or_name

\* client.beta.assistants.retrieve(assistant_id)
Retrieve(r, assistant_id) ==
    LET i == CHOOSE j \in 1..Len(r.assistants) : r.assistants[j].id = assistant_id
    IN  r.assistants[i]

\* A scan that keeps going and returns the last entry that matches.
FirstMatch_last(assistants, id_or_name) ==
    LET hits == {i \in 1..Len(assistants) : Matches(assistants[i], id_or_name)}
    IN  IF hits = {} THEN 0 ELSE CHOOSE i \in hits : \A j \in hits : i >= j

\* The scan of the listed assistants: the position of the entry whose
\* branch returns, 0 when the loop ends without returning.
FirstMatch(assistants, id_or_name) ==
    LET hits == {i \in 1..Len(assistants) : Matches(assistants[i], id_or_name)}
    IN  IF hits = {} THEN 0 ELSE CHOOSE i \in hits : \A j \in hits : i <= j

find_assistant(g, r, id_or_name, fault) ==
    IF FalsyStr(id_or_name) THEN Outcome(g, r, <<>>, NoneV, "none")
    ELSE IF fault = "assistants.list"
    THEN Outcome(g, r, <<Failed("assistants.list", <<>>)>>, NoneV, "APIError")
    ELSE LET assistants == r.assistants
             listed == <<Call("assistants.list", <<>>, assistants)>>
             hit == FirstMatch(assistants, id_or_name)
         IN  IF Len(assistants) = 0 THEN Outcome(g, r, listed, NoneV, "none")
             ELSE IF hit = 0 THEN Outcome(g, r, listed, NoneV, "none")
             ELSE LET asst == assistants[hit]
                  IN  IF fault = "assistants.retrieve"
                      THEN Outcome(g, r,
                               Append(listed, Failed("assistants.retrieve", asst.id)),
                               NoneV, "APIError")
                      ELSE LET got == Retrieve(r, asst.id)
                           IN  Outcome(g, r,
                                   Append(listed, Call("assistants.retrieve", asst.id, got)),
                                   got, "none")

-----------------------------------------------------------------------------
(* GPT.create_assistant                                                    *)

DefaultTools == <<"file_search">>
DefaultModel == "gpt-3.5-turbo"

\* `if not name and self.assistant`
UseCached(g, name) == FalsyStr(name) /\ g.assistant # NoneV

\* create_assistant without its missing-name check.
NameMissing_never(name) == FALSE

\* `if not name: raise RuntimeError(...)`
NameMissing(name) == FalsyStr(name)

\* The arguments of client.beta.assistants.create
CreateArgs(name, instructions, kwargs) ==
    [name |-> name,
     model |-> KwGet(kwargs, "model", DefaultModel),
     tools |-> KwGet(kwargs, "tools", DefaultTools),
     instructions |-> instructions]

create_assistant(g, r, name, instructions, kwargs, fault) ==
    IF UseCached(g, name) THEN Outcome(g, r, <<>>, g.assistant, "none")
    ELSE IF NameMissing(name)
    THEN Outcome(g, r, <<>>, NoneV, NameError)
    ELSE LET found == find_assistant(g, r, name, fault)
         IN  IF found.exc # "none" THEN found
             ELSE IF found.ret # NoneV
             THEN Outcome([g EXCEPT !.assistant = found.ret], r, found.calls,
                          found.ret, "none")
             ELSE LET args == CreateArgs(name, instructions, kwargs)
                      new == Assistant(AsstIds[Len(r.assistants) + 1], args.name,
                                       args.model, args.tools, args.instructions)
                  IN  IF fault = "assistants.create"
                      THEN Outcome(g, r,
                               Append(found.calls, Failed("assistants.create", args)),
                               NoneV, "APIError")
                      ELSE Outcome([g EXCEPT !.assistant = new],
                               [r EXCEPT !.assistants = Append(@, new)],
                               Append(found.calls, Call("assistants.create", args, new)),
                               new, "none")

-----------------------------------------------------------------------------
(* GPT.attach_file                                                         *)

\* The local files open(_path, "rb") can read.
Readable == {"report.pdf"}

attach_file(g, r, path, fault) ==
    IF path \notin Readable THEN Outcome(g, r, <<>>, NoneV, "FileNotFoundError")
    ELSE IF fault = "files.create"
    THEN Outcome(g, r, <<Failed("files.create", path)>>, NoneV, "APIError")
    ELSE LET file == [id |-> FileIds[Len(r.files) + 1], filename |-> path,
                      purpose |-> "assistants"]
         IN  Outcome([g EXCEPT !.message_file = file],
                     [r EXCEPT !.files = Append(@, file.id)],
                     <<Call("files.create", path, file)>>, NoneV, "none")

-----------------------------------------------------------------------------
(* GPT.create_thread                                                       *)

\* A seed message that leaves the file out.
SeedMessages_no_attachment(role, content, message_file) ==
    <<[role |-> role, content |-> content, attachments |-> <<>>]>>

\* The messages argument of client.beta.threads.create
SeedMessages(role, content, message_file) ==
    <<[role |-> role, content |-> content,
       attachments |-> <<[file_id |-> message_file.id,
                          tools |-> <<"file_search">>]>>]>>

create_thread(g, r, content, kwargs, fault) ==
    LET role == KwGet(kwargs, "role", "user")
    IN  IF FalsyStr(content)
        THEN Outcome(g, r, <<>>, NoneV, ContentError)
        ELSE IF g.message_file = NoneV
        THEN Outcome(g, r, <<>>, NoneV, "AttributeError")
        ELSE LET messages == SeedMessages(role, content, g.message_file)
                 thread == [id |-> ThreadIds[Len(r.threads) + 1]]
             IN  IF fault = "threads.create"
                 THEN Outcome(g, r, <<Failed("threads.create", messages)>>,
                              NoneV, "APIError")
                 ELSE Outcome([g EXCEPT !.thread = thread],
                              [r EXCEPT !.threads = Append(@, thread.id)],
                              <<Call("threads.create", messages, thread)>>, NoneV, "none")

-----------------------------------------------------------------------------
(* GPT.get_response                                                        *)

\* get_response without its thread check.
ThreadMissing_never(g) == FALSE

\* `if not self.thread`
ThreadMissing(g) == g.thread = NoneV

\* `if not self.assistant`
AssistantMissing(g) == g.assistant = NoneV

\* stream.until_done(): the SDK delivers each finalized message of the run
\* to the handler's on_message_done; an error raised there ends the run.
RECURSIVE UntilDone(_, _, _)
UntilDone(h, events, i) ==
    IF i > Len(events) THEN [h |-> h, exc |-> "none"]
    ELSE LET d == on_message_done(h, events[i])
         IN  IF d.exc # "none" THEN d ELSE UntilDone(d.h, events, i + 1)

CurrentRunAttr == "_AssistantEventHandler__current_run"
completion_tokens == <<CurrentRunAttr, "usage", "completion_tokens">>
prompt_tokens == <<CurrentRunAttr, "usage", "prompt_tokens">>
total_tokens == <<CurrentRunAttr, "usage", "total_tokens">>

\* The attributes of the stream object that the usage lookups read.
StreamObject(current_run) == Obj(CurrentRunAttr :> current_run)

\* The three diagnostic lookups: what they log at error level.
UsageLog(stream) ==
    attribute_puller(completion_tokens, stream).log
        \o attribute_puller(prompt_tokens, stream).log
        \o attribute_puller(total_tokens, stream).log

\* Returning the local parse_response, which the handler never writes.
StreamResult_local(parse_response, stream) == parse_response

\* `return stream.parse_response`: stream is the handler the run was given.
StreamResult(parse_response, stream) == stream.parse_response

get_response(g, r, run, fault) ==
    IF ThreadMissing(g)
    THEN Outcome(g, r, <<>>, NoneV, ThreadError)
    ELSE IF AssistantMissing(g)
    THEN Outcome(g, r, <<>>, NoneV, AssistantError)
    ELSE IF g.thread = NoneV \/ g.assistant = NoneV
    THEN Outcome(g, r, <<>>, NoneV, "AttributeError")  \* None has no .id
    ELSE LET parse_response == NoneV
             args == [thread_id |-> g.thread.id, assistant_id |-> g.assistant.id]
             done == UntilDone(EventHandlerInit(parse_response), run.events, 1)
         IN  IF fault = "runs.stream"
             THEN Outcome(g, r, <<Failed("runs.stream", args)>>, NoneV, "APIError")
             ELSE IF done.exc # "none"
             THEN Outcome(g, r, <<Call("runs.stream", args, run)>>, NoneV, done.exc)
             ELSE [Outcome(g, r, <<Call("runs.stream", args, run)>>,
                           StreamResult(parse_response, done.h), "none")
                      EXCEPT !.log = UsageLog(StreamObject(run.current_run))]

-----------------------------------------------------------------------------
(* The manager as a state machine: a caller holding one GPT instance calls *)
(* its methods and the entry point in any order, against a service that    *)
(* may already hold assistants.  The program is single-threaded: while the *)
(* entry point runs, nothing else does.                                    *)

Names == {NoneS, "", "Reviewer", "asst_2"}
FindNames == Names \cup {"reviewer", "asst_1"}
InstructionsSet == {"You review files."}
AssistantKwargs == {NoKwargs, [model |-> "gpt-4o", tools |-> <<"code_interpreter">>]}
Contents == {NoneS, "", "Summarize this."}
ThreadKwargs == {NoKwargs, [role |-> "assistant"]}
Paths == {"report.pdf", "missing.pdf"}

\* What a streamed run can deliver: its finalized messages, and the run
\* object the usage lookups find on the stream afterwards.
CitedMessage ==
    [content |-> <<TextBlock(<<"a", "0">>, <<Annotation(<<"a", "0">>, 2, 2)>>)>>]
PlainMessage == [content |-> <<TextBlock(<<"a">>, <<>>)>>]
UsageRun ==
    Obj([usage |-> Obj([completion_tokens |-> PyInt(0), prompt_tokens |-> PyInt(5),
                        total_tokens |-> PyInt(5)])])
Runs ==
    {[events |-> <<>>, current_run |-> NoneV],
     [events |-> <<PlainMessage, CitedMessage>>, current_run |-> NoneV],
     [events |-> <<PlainMessage, CitedMessage>>, current_run |-> UsageRun],
     [events |-> <<CitedMessage, PlainMessage>>, current_run |-> UsageRun],
     [events |-> <<[content |-> <<>>]>>, current_run |-> UsageRun]}

\* How the service behaves during one operation: the API that raises, if
\* any, and the run it streams.
Behaviours(faults) ==
    {[fault |-> "none", run |-> run] : run \in Runs}
        \cup {[fault |-> f, run |-> [events |-> <<>>, current_run |-> NoneV]] : f \in faults}

\* The assistants the service holds before the caller's first call.
Existing(id, name) == Assistant(id, name, DefaultModel, DefaultTools, NoneS)
InitialAssistants ==
    {<<>>,
     <<Existing("asst_1", "Reviewer")>>,
     <<Existing("asst_1", "asst_2"), Existing("asst_2", "Reviewer")>>}

IdleLast ==
    [op |-> "none", inst |-> "none", args |-> NoneV, pre |-> GPTInit, g |-> GPTInit,
     calls |-> <<>>, ret |-> NoneV, exc |-> "none", log |-> <<>>, steps |-> <<>>]
IdleEntry ==
    [pc |-> "idle", gpt_obj |-> "none", gpt |-> "unbound", fresh |-> GPTInit,
     args |-> NoneV, pre |-> GPTInit, calls |-> <<>>, steps |-> <<>>]
IdleDelivered == [n |-> 0, event |-> "none", arg |-> NoneV, exc |-> "none"]
IdlePuller == [called |-> FALSE, path |-> <<>>, obj |-> NoneV, ret |-> NoneV,
               log |-> <<>>, lookups |-> <<>>]

\* The record of a method call on the caller's instance.
Record(op, args, o) ==
    [op |-> op, inst |-> "caller", args |-> args, pre |-> caller, g |-> o.g,
     calls |-> o.calls, ret |-> o.ret, exc |-> o.exc, log |-> o.log, steps |-> <<>>]

WithinBounds(r) ==
    /\ Len(r.files) <= MaxFiles
    /\ Len(r.threads) <= MaxThreads

Init ==
    /\ remote \in [assistants : InitialAssistants, files : {<<>>}, threads : {<<>>}]
    /\ caller = GPTInit
    /\ last = IdleLast
    /\ entry = IdleEntry
    /\ handler = EventHandlerInit(NoneV)
    /\ delivered = IdleDelivered
    /\ puller = IdlePuller

\* A method call by the caller: the instance and the service move to the
\* outcome's, and last records the call.
Method(op, args, o) ==
    /\ WithinBounds(o.remote)
    /\ caller' = o.g
    /\ remote' = o.remote
    /\ last' = Record(op, args, o)
    /\ UNCHANGED <<entry, handler, delivered, puller>>

CreateAssistant ==
    /\ entry.pc = "idle"
    /\ \E name \in Names, instructions \in InstructionsSet, kwargs \in AssistantKwargs,
          fault \in {"none", "assistants.list", "assistants.retrieve", "assistants.create"} :
        Method("create_assistant",
               [name |-> name, instructions |-> instructions, kwargs |-> kwargs],
               create_assistant(caller, remote, name, instructions, kwargs, fault))

FindAssistant ==
    /\ entry.pc = "idle"
    /\ \E id_or_name \in FindNames,
          fault \in {"none", "assistants.list", "assistants.retrieve"} :
        Method("find_assistant", [id_or_name |-> id_or_name],
               find_assistant(caller, remote, id_or_name, fault))

AttachFile ==
    /\ entry.pc = "idle"
    /\ \E path \in Paths, fault \in {"none", "files.create"} :
        Method("attach_file", [path |-> path], attach_file(caller, remote, path, fault))

CreateThread ==
    /\ entry.pc = "idle"
    /\ \E content \in Contents, kwargs \in ThreadKwargs,
          fault \in {"none", "threads.create"} :
        Method("create_thread", [content |-> content, kwargs |-> kwargs],
               create_thread(caller, remote, content, kwargs, fault))

GetResponse ==
    /\ entry.pc = "idle"
    /\ \E b \in Behaviours({"runs.stream"}) :
        Method("get_response", NoneV, get_response(caller, remote, b.run, b.fault))

-----------------------------------------------------------------------------
(* send_pdf_to_openai, one statement at a time.  entry is its activation   *)
(* record: the statement it is at, its arguments, what its names gpt_obj   *)
(* and gpt are bound to ("caller": the instance passed in; "fresh": the    *)
(* instance it constructed, held in entry.fresh), and the steps it ran.    *)

EntryNames == {NoneS, "Reviewer"}
EntryContents == {"", "Summarize this."}

\* The instance a name of the function is bound to.
Bound(name) == IF name = "caller" THEN caller ELSE entry.fresh

Step(op, inst, o) == [op |-> op, inst |-> inst, ret |-> o.ret, exc |-> o.exc]

\* Every step wrapped in a try that swallows its error.
Propagates_never(o) == FALSE

\* An error raised by a step leaves the function: no statement catches it.
Propagates(o) == o.exc # "none"

\* A step op on the instance named inst ends with outcome o: the instance
\* and the service move to the outcome's; the function goes on to the
\* statement next, or ends where the step raised.
Run(op, inst, o, next) ==
    LET steps == Append(entry.steps, Step(op, inst, o))
        calls == entry.calls \o o.calls
    IN  /\ WithinBounds(o.remote)
        /\ remote' = o.remote
        /\ caller' = IF inst = "caller" THEN o.g ELSE caller
        /\ IF Propagates(o)
           THEN /\ last' = [op |-> "send_pdf_to_openai", inst |-> entry.gpt_obj,
                            args |-> entry.args, pre |-> entry.pre, g |-> o.g,
                            calls |-> calls, ret |-> NoneV, exc |-> o.exc, log |-> o.log,
                            steps |-> steps]
                /\ entry' = IdleEntry
           ELSE IF next = "return"
           THEN /\ last' = [op |-> "send_pdf_to_openai", inst |-> entry.gpt_obj,
                            args |-> entry.args, pre |-> entry.pre, g |-> o.g,
                            calls |-> calls, ret |-> o.ret, exc |-> "none", log |-> o.log,
                            steps |-> steps]
                /\ entry' = IdleEntry
           ELSE /\ entry' = [entry EXCEPT !.pc = next, !.steps = steps, !.calls = calls,
                                          !.fresh = IF inst = "fresh" THEN o.g ELSE @]
                /\ UNCHANGED last
        /\ UNCHANGED <<handler, delivered, puller>>

\* The call, and `if not gpt_obj: gpt_obj = gpt = GPT()`.
SendPdfCall ==
    /\ entry.pc = "idle"
    /\ \E assistant_name \in EntryNames, assistant_instructions \in InstructionsSet,
          thread_content \in EntryContents, file_path \in Paths,
          gpt_obj \in {"none", "caller"} :
        entry' = [pc |-> "create_assistant",
                  gpt_obj |-> IF gpt_obj = "none" THEN "fresh" ELSE gpt_obj,
                  gpt |-> IF gpt_obj = "none" THEN "fresh" ELSE "unbound",
                  fresh |-> GPTInit,
                  args |-> [assistant_name |-> assistant_name,
                            assistant_instructions |-> assistant_instructions,
                            thread_content |-> thread_content, file_path |-> file_path,
                            gpt_obj |-> gpt_obj],
                  pre |-> IF gpt_obj = "none" THEN GPTInit ELSE caller,
                  calls |-> <<>>, steps |-> <<>>]
    /\ last' = IdleLast
    /\ UNCHANGED <<remote, caller, handler, delivered, puller>>

\* gpt_obj.create_assistant(name=assistant_name, instructions=...)
SendPdfCreateAssistant ==
    /\ entry.pc = "create_assistant"
    /\ \E fault \in {"none", "assistants.list"} :
        Run("create_assistant", entry.gpt_obj,
            create_assistant(Bound(entry.gpt_obj), remote, entry.args.assistant_name,
                             entry.args.assistant_instructions, NoKwargs, fault),
            "attach_file")

\* gpt_obj.attach_file(file_path)
SendPdfAttachFile ==
    /\ entry.pc = "attach_file"
    /\ \E fault \in {"none", "files.create"} :
        Run("attach_file", entry.gpt_obj,
            attach_file(Bound(entry.gpt_obj), remote, entry.args.file_path, fault),
            "create_thread")

\* gpt_obj.create_thread(content=thread_content)
SendPdfCreateThread ==
    /\ entry.pc = "create_thread"
    /\ \E fault \in {"none", "threads.create"} :
        Run("create_thread", entry.gpt_obj,
            create_thread(Bound(entry.gpt_obj), remote, entry.args.thread_content,
                          NoKwargs, fault),
            "get_response")

\* res = gpt.get_response(); return res.  Reading the name gpt where it was
\* never assigned raises UnboundLocalError.
SendPdfGetResponse ==
    /\ entry.pc = "get_response"
    /\ IF entry.gpt = "unbound"
       THEN /\ last' = [op |-> "send_pdf_to_openai", inst |-> entry.gpt_obj,
                        args |-> entry.args, pre |-> entry.pre, g |-> Bound(entry.gpt_obj),
                        calls |-> entry.calls, ret |-> NoneV, exc |-> "UnboundLocalError",
                        log |-> <<>>, steps |-> entry.steps]
            /\ entry' = IdleEntry
            /\ UNCHANGED <<remote, caller, handler, delivered, puller>>
       ELSE \E b \in Behaviours({"runs.stream"}) :
                Run("get_response", entry.gpt,
                    get_response(Bound(entry.gpt), remote, b.run, b.fault), "return")

Next ==
    \/ CreateAssistant
    \/ FindAssistant
    \/ AttachFile
    \/ CreateThread
    \/ GetResponse
    \/ SendPdfCall
    \/ SendPdfCreateAssistant
    \/ SendPdfAttachFile
    \/ SendPdfCreateThread
    \/ SendPdfGetResponse

Spec == Init /\ [][Next]_vars

-----------------------------------------------------------------------------
(* The collector alone: the SDK delivers callbacks to one EventHandler.    *)

InitCollector ==
    /\ handler = EventHandlerInit(NoneV)
    /\ delivered = IdleDelivered
    /\ remote = [assistants |-> <<>>, files |-> <<>>, threads |-> <<>>]
    /\ caller = GPTInit
    /\ last = IdleLast
    /\ entry = IdleEntry
    /\ puller = IdlePuller

Deliverable == delivered.n < MaxEvents /\ delivered.exc = "none"

TextCreated ==
    /\ Deliverable
    /\ handler' = on_text_created(handler, NoneV)
    /\ delivered' = [n |-> delivered.n + 1, event |-> "on_text_created",
                     arg |-> NoneV, exc |-> "none"]
    /\ UNCHANGED <<remote, caller, last, entry, puller>>

ToolCallCreated ==
    /\ Deliverable
    /\ handler' = on_tool_call_created(handler, NoneV)
    /\ delivered' = [n |-> delivered.n + 1, event |-> "on_tool_call_created",
                     arg |-> NoneV, exc |-> "none"]
    /\ UNCHANGED <<remote, caller, last, entry, puller>>

MessageDone ==
    /\ Deliverable
    /\ \E message \in Messages :
        LET d == on_message_done(handler, message)
        IN  /\ handler' = d.h
            /\ delivered' = [n |-> delivered.n + 1, event |-> "on_message_done",
                             arg |-> message, exc |-> d.exc]
    /\ UNCHANGED <<remote, caller, last, entry, puller>>

NextCollector == TextCreated \/ ToolCallCreated \/ MessageDone

SpecCollector == InitCollector /\ [][NextCollector]_vars

-----------------------------------------------------------------------------
(* attribute_puller alone: one call on an object and a path.               *)

Attrs == {"usage", "total_tokens"}

Leaves == {NoneV, PyInt(0), PyInt(7)}
Objects1 == {Obj(f) : f \in [Attrs -> Leaves]}
Objects2 == {Obj(f) : f \in [Attrs -> Leaves \cup Objects1]}
Roots == Leaves \cup Objects1 \cup Objects2

AttrPaths == UNION {[1..k -> Attrs] : k \in 0..MaxPath}

InitPuller ==
    /\ puller \in [called : {FALSE}, path : AttrPaths, obj : Roots, ret : {NoneV},
                   log : {<<>>}, lookups : {<<>>}]
    /\ handler = EventHandlerInit(NoneV)
    /\ delivered = IdleDelivered
    /\ remote = [assistants |-> <<>>, files |-> <<>>, threads |-> <<>>]
    /\ caller = GPTInit
    /\ last = IdleLast
    /\ entry = IdleEntry

Pull ==
    /\ ~puller.called
    /\ LET o == attribute_puller(puller.path, puller.obj)
       IN  puller' = [puller EXCEPT !.called = TRUE, !.ret = o.ret, !.log = o.log,
                                    !.lookups = o.lookups]
    /\ UNCHANGED <<remote, caller, last, entry, handler, delivered>>

NextPuller == Pull

SpecPuller == InitPuller /\ [][NextPuller]_vars

-----------------------------------------------------------------------------
(* Properties of the manager, checked under Spec.                          *)

\* The calls of one API among calls.
CallsOf(calls, api) == SelectSeq(calls, LAMBDA c : c.api = api)

NoCalls == last.calls = <<>>
CacheUnchanged == last.g = last.pre

\* C1: get_response opens a streamed run only when a thread and an
\* assistant are cached.  With no thread cached it raises the thread
\* precondition error (checked first); with a thread but no assistant
\* cached it raises the assistant precondition error; in both cases it
\* makes no remote call and leaves the cached assistant, file and thread
\* as they were.
C1_ResponseNeedsThreadAndAssistant ==
    last.op = "get_response" =>
        /\ last.pre.thread = NoneV =>
               last.exc = ThreadError /\ NoCalls /\ CacheUnchanged
        /\ last.pre.thread # NoneV /\ last.pre.assistant = NoneV =>
               last.exc = AssistantError /\ NoCalls /\ CacheUnchanged
        /\ CallsOf(last.calls, "runs.stream") # <<>> =>
               last.pre.thread # NoneV /\ last.pre.assistant # NoneV

\* A thread is cached and no assistant, and get_response was called.
C1_Witness ==
    /\ last.op = "get_response"
    /\ last.pre.thread # NoneV
    /\ last.pre.assistant = NoneV
    /\ last.exc = AssistantError

\* The listed entries that match name by id or by name.
Matching(listed, name) ==
    {i \in 1..Len(listed) : listed[i].id = name \/ listed[i].name = name}

\* C4: create_assistant with a non-empty name finds or creates.  If the
\* listed assistants hold one whose id or name equals the name, the first
\* such is cached and returned and no create call is made; otherwise
\* exactly one create call is made, with the given name, tools defaulting
\* to [file_search] and model to "gpt-3.5-turbo", and its result is cached
\* and returned.  Either way the value returned is the cached assistant.
\* (Calls of the service that raise are excluded.)
C4_FindOrCreate ==
    last.op = "create_assistant" /\ ~FalsyStr(last.args.name) /\ last.exc = "none" =>
        LET name == last.args.name
            kwargs == last.args.kwargs
            listed == last.calls[1].reply
            creates == CallsOf(last.calls, "assistants.create")
        IN  /\ last.calls[1].api = "assistants.list"
            /\ last.ret = last.g.assistant
            /\ last.ret # NoneV
            /\ IF Matching(listed, name) # {}
               THEN /\ creates = <<>>
                    /\ \E i \in Matching(listed, name) :
                        /\ \A j \in Matching(listed, name) : i <= j
                        /\ last.ret = listed[i]
               ELSE /\ Len(creates) = 1
                    /\ creates[1].args.name = name
                    /\ creates[1].args.instructions = last.args.instructions
                    /\ creates[1].args.tools =
                           IF "tools" \in DOMAIN kwargs THEN kwargs.tools
                           ELSE <<"file_search">>
                    /\ creates[1].args.model =
                           IF "model" \in DOMAIN kwargs THEN kwargs.model
                           ELSE "gpt-3.5-turbo"
                    /\ last.ret = creates[1].reply
                    /\ last.ret.name = name
                    /\ \E i \in 1..Len(remote.assistants) : remote.assistants[i] = last.ret

\* An assistant was created with the default tools and model.
C4_Witness ==
    /\ last.op = "create_assistant"
    /\ last.exc = "none"
    /\ last.args.kwargs = NoKwargs
    /\ CallsOf(last.calls, "assistants.create") # <<>>
    /\ last.g.assistant.model = "gpt-3.5-turbo"

\* C5: create_assistant with no name makes no remote call and leaves the
\* cached assistant as it was: it returns the cached assistant if there is
\* one, and raises the missing-name error if there is none.
C5_NoNameUsesCache ==
    last.op = "create_assistant" /\ FalsyStr(last.args.name) =>
        /\ NoCalls
        /\ CacheUnchanged
        /\ last.pre.assistant # NoneV =>
               last.exc = "none" /\ last.ret = last.pre.assistant
        /\ last.pre.assistant = NoneV => last.exc = NameError /\ last.ret = NoneV

\* create_assistant was called with no name on an instance with an
\* assistant cached.
C5_Witness ==
    /\ last.op = "create_assistant"
    /\ FalsyStr(last.args.name)
    /\ last.pre.assistant # NoneV
    /\ last.ret = last.pre.assistant

\* C9: find_assistant with no identifier returns None without a remote
\* call.  Otherwise it lists the assistants; for the first listed entry
\* whose id or name equals the identifier exactly it retrieves that entry
\* by its id and returns what it retrieved; it returns None if no entry
\* matches (an empty list included).  It never changes the cached
\* assistant, file or thread.
C9_FindAssistant ==
    last.op = "find_assistant" =>
        /\ CacheUnchanged
        /\ FalsyStr(last.args.id_or_name) =>
               NoCalls /\ last.ret = NoneV /\ last.exc = "none"
        /\ ~FalsyStr(last.args.id_or_name) /\ last.exc = "none" =>
               LET listed == last.calls[1].reply
                   hits == Matching(listed, last.args.id_or_name)
               IN  /\ last.calls[1].api = "assistants.list"
                   /\ hits = {} => Len(last.calls) = 1 /\ last.ret = NoneV
                   /\ hits # {} =>
                          \E i \in hits :
                              /\ \A j \in hits : i <= j
                              /\ Len(last.calls) = 2
                              /\ last.calls[2].api = "assistants.retrieve"
                              /\ last.calls[2].args = listed[i].id
                              /\ last.ret = last.calls[2].reply
                              /\ last.ret.id = listed[i].id

\* The identifier is the name of the first listed entry and the id of a
\* later one: the first is retrieved.
C9_Witness ==
    /\ last.op = "find_assistant"
    /\ last.exc = "none"
    /\ last.ret # NoneV
    /\ last.ret.name = last.args.id_or_name
    /\ last.ret.id # last.args.id_or_name
    /\ \E i \in 1..Len(remote.assistants) : remote.assistants[i].id = last.args.id_or_name

\* The text the finalize handler stores for the last message of a run.
Finalized(run) ==
    IF Len(run.events) = 0 THEN NoneV
    ELSE on_message_done(EventHandlerInit(NoneV), run.events[Len(run.events)]).h.parse_response

\* C6: with a thread and an assistant cached, get_response returns the
\* text the finalize handler stored during the run, or None if the handler
\* was never invoked; whether the usage lookups succeed makes no
\* difference to what it returns.
C6_ResponseIsFinalizedText ==
    last.op = "get_response" /\ last.exc = "none" =>
        /\ last.pre.thread # NoneV /\ last.pre.assistant # NoneV
        /\ Len(last.calls) = 1
        /\ last.calls[1].api = "runs.stream"
        /\ last.calls[1].args = [thread_id |-> last.pre.thread.id,
                                 assistant_id |-> last.pre.assistant.id]
        /\ last.ret = Finalized(last.calls[1].reply)

\* get_response returned a text although the usage lookups found nothing
\* and logged an error.
C6_Witness ==
    /\ last.op = "get_response"
    /\ last.exc = "none"
    /\ last.ret # NoneV
    /\ last.log # <<>>
    /\ last.calls[1].reply.current_run = NoneV

\* C8: create_thread with empty or absent content raises the no-content
\* error without a remote call and leaves the cached thread as it was.
\* With content and a file handle cached it creates a thread with exactly
\* one seed message (role defaulting to "user", the given content) that
\* has exactly one attachment, whose file id is the id of the cached file
\* handle, and caches the thread; attach_file caches the handle of the
\* file it uploaded.  With content and no file handle cached it fails with
\* an attribute error, and no thread is created or cached.
C8_CreateThread ==
    /\ last.op = "create_thread" =>
        LET content == last.args.content
            kwargs == last.args.kwargs
            creates == CallsOf(last.calls, "threads.create")
        IN  /\ FalsyStr(content) =>
                   last.exc = ContentError /\ NoCalls /\ CacheUnchanged
            /\ ~FalsyStr(content) /\ last.pre.message_file = NoneV =>
                   last.exc = "AttributeError" /\ NoCalls /\ CacheUnchanged
            /\ ~FalsyStr(content) /\ last.pre.message_file # NoneV /\ last.exc = "none" =>
                   /\ Len(last.calls) = 1 /\ Len(creates) = 1
                   /\ Len(creates[1].args) = 1
                   /\ creates[1].args[1].role =
                          IF "role" \in DOMAIN kwargs THEN kwargs.role ELSE "user"
                   /\ creates[1].args[1].content = content
                   /\ Len(creates[1].args[1].attachments) = 1
                   /\ creates[1].args[1].attachments[1].file_id = last.pre.message_file.id
                   /\ last.g.thread = creates[1].reply
                   /\ \E i \in 1..Len(remote.threads) : remote.threads[i] = last.g.thread.id
                   /\ last.g.assistant = last.pre.assistant
                   /\ last.g.message_file = last.pre.message_file
    /\ last.op = "attach_file" /\ last.exc = "none" =>
        /\ Len(last.calls) = 1
        /\ last.g.message_file = last.calls[1].reply
        /\ last.g.message_file.id = remote.files[Len(remote.files)]

\* A thread was created after a second attach_file: its attachment is the
\* second file.
C8_Witness ==
    /\ last.op = "create_thread"
    /\ last.exc = "none"
    /\ last.pre.message_file.id = "file_2"
    /\ last.calls[1].args[1].attachments[1].file_id = "file_2"

EntrySteps == <<"create_assistant", "attach_file", "create_thread", "get_response">>

\* The steps that raised.
Raised(steps) == {i \in 1..Len(steps) : steps[i].exc # "none"}

\* The replies of the calls of api that the service answered.
Created(calls, api) == {c.reply : c \in {calls[i] : i \in {j \in 1..Len(calls) : calls[j].api = api /\ calls[j].ok}}}

\* C10: in send_pdf_to_openai, if a step fails, that failure reaches the
\* caller, no later step runs, and nothing is undone: the assistant and
\* the file that earlier steps created are still on the service.
C10_FailurePropagates ==
    last.op = "send_pdf_to_openai" /\ Raised(last.steps) # {} =>
        /\ Raised(last.steps) = {Len(last.steps)}
        /\ last.exc = last.steps[Len(last.steps)].exc
        /\ last.ret = NoneV
        /\ \A i \in 1..Len(last.steps) : last.steps[i].op = EntrySteps[i]
        /\ \A c \in {last.calls[i] : i \in 1..Len(last.calls)} :
               c.api \in {"assistants.list", "assistants.retrieve", "assistants.create",
                          "files.create", "threads.create", "runs.stream"}
        /\ \A a \in Created(last.calls, "assistants.create") :
               \E i \in 1..Len(remote.assistants) : remote.assistants[i] = a
        /\ \A f \in Created(last.calls, "files.create") :
               \E i \in 1..Len(remote.files) : remote.files[i] = f.id

\* The entry point was called with empty thread content: the assistant was
\* created and the file uploaded before create_thread raised.
C10_Witness ==
    /\ last.op = "send_pdf_to_openai"
    /\ last.exc = ContentError
    /\ Len(last.steps) = 3
    /\ Created(last.calls, "assistants.create") # {}
    /\ Created(last.calls, "files.create") # {}

\* C2: every call of send_pdf_to_openai, given an instance or none, runs
\* create assistant, attach file, create thread and get response in that
\* order on one instance and returns what that instance's get_response
\* returned.  (Stated for the calls in which no step raises.)
C2_FourStepsOnOneInstance ==
    last.op = "send_pdf_to_openai" /\ Raised(last.steps) = {} =>
        /\ Len(last.steps) = 4
        /\ \A i \in 1..Len(last.steps) :
               last.steps[i].op = EntrySteps[i] /\ last.steps[i].inst = last.inst
        /\ last.exc = "none"
        /\ last.ret = last.steps[Len(last.steps)].ret

-----------------------------------------------------------------------------
(* Properties of the collector, checked under SpecCollector.               *)

\* value with the span of each annotation, from annotation i (0-based) and
\* position pos on, replaced by the marker of the annotation's index.
RECURSIVE MarkSpans(_, _, _, _)
MarkSpans(value, annotations, i, pos) ==
    IF i >= Len(annotations) THEN SubSeq(value, pos, Len(value))
    ELSE LET a == annotations[i + 1]
         IN  SubSeq(value, pos, a.start_index) \o <<"[", Digits[i + 1], "]">>
                 \o MarkSpans(value, annotations, i + 1, a.end_index + 1)

\* C3: on_message_done stores the text of the first content block with
\* each annotation's matched text replaced by "[i]", i the annotation's
\* index, and all other text unchanged; with no annotations it stores the
\* text as it is.
C3_MarkersReplaceAnnotatedText ==
    delivered.event = "on_message_done" /\ delivered.exc = "none" =>
        LET text == delivered.arg.content[1].text
        IN  handler.parse_response = Str(MarkSpans(text.value, text.annotations, 0, 1))

-----------------------------------------------------------------------------
(* Properties of attribute_puller, checked under SpecPuller.               *)

\* The value k lookups along path from obj.
RECURSIVE ValueAt(_, _, _)
ValueAt(obj, path, k) ==
    IF k = 0 THEN obj ELSE GetAttr(ValueAt(obj, path, k - 1), path[k])

\* C7: attribute_puller returns the leaf if every step yields a truthy
\* value; if a step yields a missing or falsy value it logs that attribute
\* once, looks no further and returns None; for an empty path or a falsy
\* root it returns None without a lookup.
C7_LeafOrNone ==
    puller.called =>
        IF Len(puller.path) = 0 \/ ~Truthy(puller.obj)
        THEN puller.ret = NoneV /\ puller.lookups = <<>> /\ puller.log = <<>>
        ELSE LET falsy == {k \in 1..Len(puller.path) :
                              ~Truthy(ValueAt(puller.obj, puller.path, k))}
             IN  IF falsy = {}
                 THEN /\ puller.ret = ValueAt(puller.obj, puller.path, Len(puller.path))
                      /\ puller.lookups = puller.path
                      /\ puller.log = <<>>
                 ELSE LET k == CHOOSE i \in falsy : \A j \in falsy : i <= j
                      IN  /\ puller.ret = NoneV
                          /\ puller.lookups = SubSeq(puller.path, 1, k)
                          /\ puller.log = <<puller.path[k]>>

=============================================================================
